---- MODULE Spec2Model ----
(***************************************************************************)
(* State-machine model of scripts/run_daily.py: one daily run of main()    *)
(* (profit generation and pool merge, persistence, healing / digitaltwin   *)
(* generation, public post, publish) and the persisted opportunity pool    *)
(* that is handed from run to run.                                         *)
(*                                                                         *)
(* Dates are day numbers (date.fromisoformat of an ISO string); NoDate is  *)
(* Python's None and BadDate a string that date.fromisoformat rejects.     *)
(* A dict is a record, a key that is absent from the dict is absent from   *)
(* the record's DOMAIN.  An opportunity is projected onto the keys the     *)
(* code reads or writes after parsing: id, status, history.                *)
(***************************************************************************)
EXTENDS Integers, Sequences, FiniteSets, TLC

----------------------------------------------------------------------------
\* Bounds of the model.
MaxDay == 8      \* the clock runs over days 0..MaxDay
MaxOpps == 4     \* a proposal lists at most MaxOpps opportunities
MaxRuns == 2     \* number of runs of main() in one behaviour

\* RETRY of the source
RETRY == 3

\* last_review_date: None, and a string that date.fromisoformat rejects
NoDate == -1
BadDate == -2

Statuses == {"backlog", "active", "blocked", "done", "killed"}
NoStatus == "None"

----------------------------------------------------------------------------
\* dict helpers

\* o.get("status")
get_status(o) == IF "status" \in DOMAIN o THEN o.status ELSE NoStatus

\* o.setdefault("history", [])
setdefault_history(o) ==
    IF "history" \in DOMAIN o THEN o
    ELSE [k \in DOMAIN o \cup {"history"} |-> IF k = "history" THEN <<>> ELSE o[k]]

init_profit_state ==
    [version |-> 1, review_interval_days |-> 7,
     last_review_date |-> NoDate, opportunities |-> <<>>]

\* normalize_profit_state: setdefault of the four top-level keys (the file is
\* only ever written by write_json(p_state_path, state): it holds a dict whose
\* "opportunities" is a list)
normalize_profit_state(s) ==
    [k \in DOMAIN s \cup DOMAIN init_profit_state |->
        IF k \in DOMAIN s THEN s[k] ELSE init_profit_state[k]]

\* is_review_day with a strict comparison
is_review_day_strict(s, t) ==
    LET last == s.last_review_date
        interval == s.review_interval_days
    IN  IF last = NoDate THEN TRUE
        ELSE IF last = BadDate THEN TRUE
        ELSE (t - last) > interval

\* is_review_day(state, today)
is_review_day(s, t) ==
    LET last == s.last_review_date
        interval == s.review_interval_days
    IN  IF last = NoDate THEN TRUE            \* if not last: return True
        ELSE IF last = BadDate THEN TRUE      \* except Exception: return True
        ELSE (t - last) >= interval

\* indices of the records with status == "active", in pool order
RECURSIVE active_from(_, _)
active_from(opps, i) ==
    IF i > Len(opps) THEN <<>>
    ELSE IF get_status(opps[i]) = "active" THEN <<i>> \o active_from(opps, i + 1)
    ELSE active_from(opps, i + 1)

active_opps(opps) == active_from(opps, 1)

\* the entry clamp_active_to_two appends, d = today_str()
downgrade_entry(d) ==
    [date |-> d, event |-> "auto-downgrade-to-backlog", note |-> "active > 2 clamp"]

\* the downgrade without its history entry
downgrade_silently(o, d) ==
    LET h == setdefault_history(o)
    IN  [h EXCEPT !.status = "backlog"]

\* the downgrade that appends its entry and leaves the status
downgrade_keeps_active(o, d) ==
    LET h == setdefault_history(o)
    IN  [h EXCEPT !.history = Append(@, downgrade_entry(d))]

\* the downgrade that starts the history anew
downgrade_fresh_history(o, d) ==
    LET h == setdefault_history(o)
    IN  [h EXCEPT !.status = "backlog", !.history = <<downgrade_entry(d)>>]

downgrade(o, d) ==
    LET h == setdefault_history(o)
    IN  [h EXCEPT !.status = "backlog", !.history = Append(@, downgrade_entry(d))]

\* act[2:] of a list of indices
rest_after_two(act) == {act[k] : k \in 3..Len(act)}

\* the clamp with its ceiling off by one: act[3:] of more than 3
clamp_active_to_three(opps, d) ==
    LET act == active_opps(opps)
    IN  IF Len(act) <= 3 THEN opps
        ELSE [i \in 1..Len(opps) |->
                IF i \in {act[k] : k \in 4..Len(act)} THEN downgrade(opps[i], d) ELSE opps[i]]

\* clamp_active_to_two(state), on the opportunities list; d = today_str()
clamp_active_to_two(opps, d) ==
    LET act == active_opps(opps)
    IN  IF Len(act) <= 2 THEN opps
        ELSE [i \in 1..Len(opps) |->
                IF i \in rest_after_two(act) THEN downgrade(opps[i], d) ELSE opps[i]]

\* the merge with an empty list as the default of updated_state.get
merge_default_empty(s, u, d) ==
    LET opps1 == IF "opportunities" \in DOMAIN u THEN u.opportunities ELSE <<>>
        lrd   == IF u.last_review_date # NoDate THEN u.last_review_date ELSE s.last_review_date
        opps2 == [i \in 1..Len(opps1) |-> setdefault_history(opps1[i])]
    IN  [s EXCEPT !.opportunities = clamp_active_to_two(opps2, d),
                  !.last_review_date = lrd]

\* lines 329-342: merge updated_state into state, normalise, clamp
merge(s, u, d) ==
    LET opps1 == IF "opportunities" \in DOMAIN u THEN u.opportunities ELSE s.opportunities
        lrd   == IF u.last_review_date # NoDate THEN u.last_review_date ELSE s.last_review_date
        opps2 == [i \in 1..Len(opps1) |-> setdefault_history(opps1[i])]
    IN  [s EXCEPT !.opportunities = clamp_active_to_two(opps2, d),
                  !.last_review_date = lrd]

----------------------------------------------------------------------------
\* What the generator (deepseek_chat) may answer to the profit prompt.

\* a history entry written by the generator on day t
generated_entry(t) == [date |-> t, event |-> "progress", note |-> "generated"]

used_ids(opps) == {opps[i].id : i \in 1..Len(opps)}

fresh_id(opps) == CHOOSE n \in 1..(MaxOpps + 1) :
                     n \notin used_ids(opps) /\ \A m \in 1..(n - 1) : m \in used_ids(opps)

\* k new records, all active but those at the positions in quiet
fresh_list(k, quiet) ==
    [i \in 1..k |-> [id |-> i, status |-> IF i \in quiet THEN "killed" ELSE "active"]]

\* The values of parsed["updated_state"] a response may carry, given the pool
\* shown in the prompt (opps) and the date of the prompt (t):
\*   nothing at all; a date and no list; the pool echoed, with today's date or an unparseable one;
\*   the pool emptied; one new record (active, with today's date or an
\*   unparseable one; with a status outside the enumeration and no date; or
\*   without a status but with a history); every history emptied; the last
\*   history extended; the last record made active, the first one killed;
\*   three or more new records, all active or all but the second.
Proposals(opps, t) ==
    LET n == Len(opps)
        id == fresh_id(opps)
        room == {x \in {1} : n < MaxOpps}
        some == {x \in {1} : n > 0}
    IN  {[last_review_date |-> NoDate],
         [last_review_date |-> t],
         [last_review_date |-> t, opportunities |-> opps],
         [last_review_date |-> BadDate, opportunities |-> opps],
         [last_review_date |-> t, opportunities |-> <<>>]}
        \cup {[last_review_date |-> l,
               opportunities |-> Append(opps, [id |-> id, status |-> "active"])] :
                  l \in {y \in {t, BadDate} : n < MaxOpps}}
        \cup {[last_review_date |-> NoDate,
               opportunities |-> Append(opps, [id |-> id, status |-> "paused"])] : x \in room}
        \cup {[last_review_date |-> t,
               opportunities |-> Append(opps, [id |-> id, history |-> <<generated_entry(t)>>])] :
                  x \in room}
        \cup {[last_review_date |-> t,
               opportunities |-> [i \in 1..n |-> [opps[i] EXCEPT !.history = <<>>]]] :
                  x \in some}
        \cup {[last_review_date |-> t,
               opportunities |-> [opps EXCEPT ![n].history = Append(@, generated_entry(t))]] :
                  x \in some}
        \cup {[last_review_date |-> t,
               opportunities |-> [opps EXCEPT ![n] =
                   [id |-> opps[n].id, status |-> "active", history |-> opps[n].history]]] :
                  x \in some}
        \cup {[last_review_date |-> t,
               opportunities |-> [opps EXCEPT ![1] =
                   [id |-> opps[1].id, status |-> "killed", history |-> opps[1].history]]] :
                  x \in some}
        \cup {[last_review_date |-> t, opportunities |-> fresh_list(k, {})] : k \in 3..MaxOpps}
        \cup {[last_review_date |-> t, opportunities |-> fresh_list(k, {2})] : k \in 4..MaxOpps}

NoProposal == [last_review_date |-> NoDate]

----------------------------------------------------------------------------
\* The text of a response (lines 313-327).  A text is a sequence of lexemes:
\* the structural characters { } [ ] , : " each on their own, " " for a run of
\* white space, and words for runs of other characters ("1" is a number,
\* "fence_json" and "fence" are the markers of a fenced code block).

IsSpace(c) == c = " "

\* first position from i on that holds no white space
RECURSIVE skip_ws(_, _)
skip_ws(s, i) ==
    IF i <= Len(s) /\ IsSpace(s[i]) THEN skip_ws(s, i + 1) ELSE i

\* position after the quote that closes the string whose content starts at j; 0 if none
RECURSIVE close_quote(_, _)
close_quote(s, j) ==
    IF j > Len(s) THEN 0
    ELSE IF s[j] = "\"" THEN j + 1
    ELSE close_quote(s, j + 1)

\* json.loads: position after the value that starts at i, 0 if there is none
RECURSIVE parse_value(_, _)
RECURSIVE parse_members(_, _)
RECURSIVE parse_elements(_, _)

parse_value(s, i) ==
    IF i < 1 \/ i > Len(s) THEN 0
    ELSE IF s[i] = "{" THEN
        LET j == skip_ws(s, i + 1)
        IN  IF j <= Len(s) /\ s[j] = "}" THEN j + 1 ELSE parse_members(s, j)
    ELSE IF s[i] = "[" THEN
        LET j == skip_ws(s, i + 1)
        IN  IF j <= Len(s) /\ s[j] = "]" THEN j + 1 ELSE parse_elements(s, j)
    ELSE IF s[i] = "\"" THEN close_quote(s, i + 1)
    ELSE IF s[i] = "1" THEN i + 1
    ELSE 0

\* "key": value pairs from j on, up to the closing brace
parse_members(s, j) ==
    IF j > Len(s) \/ s[j] # "\"" THEN 0
    ELSE LET k == close_quote(s, j + 1)
             c == skip_ws(s, k)
         IN  IF k = 0 \/ c > Len(s) \/ s[c] # ":" THEN 0
             ELSE LET v == parse_value(s, skip_ws(s, c + 1))
                      e == skip_ws(s, v)
                  IN  IF v = 0 \/ e > Len(s) THEN 0
                      ELSE IF s[e] = "," THEN parse_members(s, skip_ws(s, e + 1))
                      ELSE IF s[e] = "}" THEN e + 1
                      ELSE 0

\* values from j on, up to the closing bracket
parse_elements(s, j) ==
    LET v == parse_value(s, j)
        e == skip_ws(s, v)
    IN  IF v = 0 \/ e > Len(s) THEN 0
        ELSE IF s[e] = "," THEN parse_elements(s, skip_ws(s, e + 1))
        ELSE IF s[e] = "]" THEN e + 1
        ELSE 0

\* json.loads(s) returns
json_loads_ok(s) ==
    LET e == parse_value(s, skip_ws(s, 1))
    IN  e # 0 /\ skip_ws(s, e) = Len(s) + 1

\* the keys of the object whose members start at j (s is valid JSON)
RECURSIVE keys_from(_, _)
keys_from(s, j) ==
    IF j > Len(s) \/ s[j] # "\"" THEN {}
    ELSE LET k == close_quote(s, j + 1)
             v == parse_value(s, skip_ws(s, skip_ws(s, k) + 1))
             e == skip_ws(s, v)
         IN  {SubSeq(s, j + 1, k - 2)}
             \cup (IF s[e] = "," THEN keys_from(s, skip_ws(s, e + 1)) ELSE {})

\* isinstance(parsed, dict) and "updated_state" in parsed, of the value of s
has_updated_state(s) ==
    LET i == skip_ws(s, 1)
    IN  /\ s[i] = "{"
        /\ <<"updated_state">> \in keys_from(s, skip_ws(s, i + 1))

\* raw.find(c), raw.rfind(c): a position, or 0 for Python's -1
RECURSIVE find_from(_, _, _)
find_from(s, c, i) ==
    IF i > Len(s) THEN 0 ELSE IF s[i] = c THEN i ELSE find_from(s, c, i + 1)

find(s, c) == find_from(s, c, 1)

RECURSIVE rfind_from(_, _, _)
rfind_from(s, c, i) ==
    IF i < 1 THEN 0 ELSE IF s[i] = c THEN i ELSE rfind_from(s, c, i - 1)

rfind(s, c) == rfind_from(s, c, Len(s))

\* raw[start:end+1], lines 321-324; <<>> if the condition of line 323 fails
span_first_to_last(s) ==
    LET start == find(s, "{")
        end == rfind(s, "}")
    IN  IF start # 0 /\ end # 0 /\ end > start THEN SubSeq(s, start, end) ELSE <<>>

\* what json.loads ignores around a value
strip_ws(s) ==
    LET i == skip_ws(s, 1)
        j == CHOOSE n \in 0..Len(s) :
                /\ \A m \in (n + 1)..Len(s) : IsSpace(s[m])
                /\ n > 0 => ~IsSpace(s[n])
    IN  SubSeq(s, i, j)

\* lines 316-327 on the text raw: what became of it (the values of the
\* variable raw) and the text whose value is parsed
profit_parse(t) ==
    LET kind_of(x) == IF has_updated_state(x) THEN "ok" ELSE "no_key"
        span == span_first_to_last(t)
    IN  IF json_loads_ok(t) THEN [kind |-> kind_of(t), parsed |-> strip_ws(t)]
        ELSE IF span = <<>> THEN [kind |-> "no_object", parsed |-> <<>>]
        ELSE IF json_loads_ok(span) THEN [kind |-> kind_of(span), parsed |-> span]
        ELSE [kind |-> "bad_span", parsed |-> <<>>]

\* Texts a response may be made of.
Prefixes ==
    {<<>>, <<" ">>, <<"Sure", " ">>, <<"Sure", " ", "fence_json", " ">>,
     <<"Sure", " ", "{", "x", "}", " ">>}

Objects ==
    {<<"{", "\"", "updated_state", "\"", ":", "{", "}", "}">>,
     <<"{", "\"", "updated_state", "\"", ":", "{", "\"", "x", "\"", ":", "1", "}", ",",
       " ", "\"", "x", "\"", ":", "\"", "}", "\"", "}">>,
     <<"{", "\"", "updated_state", "\"", ":", "{", "\"", "x", "\"", ":", "[", "1", ",",
       "1", "]", "}", "}">>,
     <<"{", "\"", "x", "\"", ":", "1", "}">>,
     <<"{", "}">>,
     <<"{", "\"", "updated_state", "\"", ":", "{", "}", ",", " ", "}">>,
     <<"{", "\"", "updated_state", "\"", ":", "{", "\"", "x", "\"", ":", "[", "1", ",",
       "]", ",", "}", "}">>,
     <<"1">>,
     <<"sorry">>}

Suffixes ==
    {<<>>, <<" ">>, <<" ", "fence">>, <<" ", "Done">>, <<" ", "{", "x", "}">>}

Responses == [prefix : Prefixes, object : Objects, suffix : Suffixes]

\* the text raw of a response
text_of(r) == r.prefix \o r.object \o r.suffix

\* no response yet
NoResponse == [prefix |-> <<>>, object |-> <<>>, suffix |-> <<>>]

VARIABLES
    clock,          \* the UTC date, what today_str() returns
    runs,           \* runs of main() started so far
    pc,             \* where main() is
    today,          \* main's local today
    state,          \* the pool dict held by main / generate_profit_module
    review_day,     \* generate_profit_module's local
    allow_new,      \* generate_profit_module's local
    attempts,       \* HTTP attempts made by the current deepseek_chat / moltbook_post call
    profit_calls,   \* deepseek_chat calls made by generate_profit_module in this run
    raw,            \* what became of the profit response
    updated_state,  \* parsed["updated_state"]
    pool_file,      \* memory/profit/opportunities.json as read_json reads it
    wrote,          \* the files written by this run, in order
    exit_msg,       \* how the process ended: die()'s message, or a traceback
    response,       \* the text of the profit response (followed in SpecParse only)
    parsed          \* the text that json.loads accepted, lines 318 / 324

vars == <<clock, runs, pc, today, state, review_day, allow_new, attempts,
          profit_calls, raw, updated_state, pool_file, wrote, exit_msg,
          response, parsed>>

GenStages == {"profit", "healing", "digitaltwin", "public_post"}
Ended == {"done", "fatal", "crashed"}

Init ==
    /\ clock = 0
    /\ runs = 0
    /\ pc = "idle"
    /\ today = 0
    /\ state = init_profit_state
    /\ review_day = TRUE
    /\ allow_new = TRUE
    /\ attempts = 0
    /\ profit_calls = 0
    /\ raw = "none"
    /\ updated_state = NoProposal
    /\ pool_file = init_profit_state
    /\ wrote = <<>>
    /\ exit_msg = "none"
    /\ response = NoResponse
    /\ parsed = <<>>

\* midnight UTC passes.  A run lasts minutes (five requests of at most RETRY
\* attempts of HTTP_TIMEOUT seconds), so at most one midnight passes in a run;
\* after the merge no statement of the run reads the clock, and a midnight that
\* passes then is taken once the process has exited.
Tick ==
    /\ clock < MaxDay
    /\ \/ pc = "idle"
       \/ pc = "profit" /\ clock = today
    /\ clock' = clock + 1
    /\ UNCHANGED <<exit_msg, response, parsed, runs, pc, today, state, review_day, allow_new, attempts,
                   profit_calls, raw, updated_state, pool_file, wrote>>

\* main, lines 506-509: a key is missing from the environment
MainMissingKey ==
    /\ pc = "idle"
    /\ runs < MaxRuns
    /\ runs' = runs + 1
    /\ pc' = "fatal"
    /\ wrote' = <<>>
    /\ raw' = "none"
    /\ updated_state' = NoProposal
    /\ profit_calls' = 0
    /\ attempts' = 0
    /\ exit_msg' = "missing_key"
    /\ UNCHANGED <<response, parsed, clock, today, state, review_day, allow_new, pool_file>>

\* main, lines 511-530, and generate_profit_module up to the request of line 313
MainStart ==
    /\ pc = "idle"
    /\ runs < MaxRuns
    /\ runs' = runs + 1
    /\ today' = clock
    /\ LET s0 == normalize_profit_state(normalize_profit_state(pool_file))
           s1 == [s0 EXCEPT !.opportunities = clamp_active_to_two(@, clock)]
       IN  /\ state' = s1
           /\ review_day' = is_review_day(s1, clock)
           /\ allow_new' = (is_review_day(s1, clock) \/ Len(active_opps(s1.opportunities)) = 0)
    /\ profit_calls' = 1
    /\ attempts' = 0
    /\ raw' = "none"
    /\ updated_state' = NoProposal
    /\ wrote' = <<>>
    /\ pc' = "profit"
    /\ UNCHANGED <<exit_msg, response, parsed, clock, pool_file>>

\* deepseek_chat with a loop of RETRY + 1 rounds
HttpFailure_one_more ==
    /\ pc \in GenStages
    /\ attempts <= RETRY
    /\ attempts' = attempts + 1
    /\ pc' = IF attempts + 1 = RETRY + 1 THEN "fatal" ELSE pc
    /\ exit_msg' = IF attempts + 1 = RETRY + 1 THEN "deepseek" ELSE exit_msg
    /\ UNCHANGED <<response, parsed, clock, runs, today, state, review_day, allow_new,
                   profit_calls, raw, updated_state, pool_file, wrote>>

\* deepseek_chat, lines 128-142: an attempt fails (transport error, status >= 400,
\* malformed body); the third failure ends the run through die()
HttpFailure ==
    /\ pc \in GenStages
    /\ attempts < RETRY
    /\ attempts' = attempts + 1
    /\ pc' = IF attempts + 1 = RETRY THEN "fatal" ELSE pc
    /\ exit_msg' = IF attempts + 1 = RETRY THEN "deepseek" ELSE exit_msg
    /\ UNCHANGED <<response, parsed, clock, runs, today, state, review_day, allow_new,
                   profit_calls, raw, updated_state, pool_file, wrote>>

\* the check of line 326 made only after the writes of lines 535-536
ProfitInvalid_after_write ==
    /\ pc = "profit"
    /\ attempts < RETRY
    /\ attempts' = attempts + 1
    /\ \E kind \in {"no_object", "no_key"} : raw' = kind
    /\ pc' = "fatal"
    /\ exit_msg' = "profit_json"
    /\ pool_file' = state
    /\ wrote' = <<"pool", "profit_log">>
    /\ UNCHANGED <<response, parsed, clock, runs, today, state, review_day, allow_new,
                   profit_calls, updated_state>>

\* lines 316-327: the response gives no object with the key updated_state: die()
ProfitInvalid ==
    /\ pc = "profit"
    /\ attempts < RETRY
    /\ attempts' = attempts + 1
    /\ \E kind \in {"no_object", "no_key"} : raw' = kind
    /\ pc' = "fatal"
    /\ exit_msg' = "profit_json"
    /\ UNCHANGED <<response, parsed, clock, runs, today, state, review_day, allow_new,
                   profit_calls, updated_state, pool_file, wrote>>

\* line 324 or line 336 raises: json.loads of the brace span fails inside the
\* except block, or updated_state["opportunities"] is null
ProfitCrash ==
    /\ pc = "profit"
    /\ attempts < RETRY
    /\ attempts' = attempts + 1
    /\ \E kind \in {"bad_span", "null_opps"} : raw' = kind
    /\ pc' = "crashed"
    /\ exit_msg' = "traceback"
    /\ UNCHANGED <<response, parsed, clock, runs, today, state, review_day, allow_new,
                   profit_calls, updated_state, pool_file, wrote>>

\* lines 329-348 and main lines 531-539: merge, write the pool and the profit
\* log, request the healing part
ProfitMerge ==
    /\ pc = "profit"
    /\ attempts < RETRY
    /\ \E u \in Proposals(state.opportunities, today) :
          /\ updated_state' = u
          /\ state' = merge(state, u, clock)
          /\ pool_file' = merge(state, u, clock)
    /\ raw' = "ok"
    /\ wrote' = <<"pool", "profit_log">>
    /\ attempts' = 0
    /\ pc' = "healing"
    /\ UNCHANGED <<exit_msg, response, parsed, clock, runs, today, review_day, allow_new, profit_calls>>

\* line 539 returns, line 541 requests the digitaltwin part
HealingDone ==
    /\ pc = "healing"
    /\ attempts < RETRY
    /\ attempts' = 0
    /\ pc' = "digitaltwin"
    /\ UNCHANGED <<exit_msg, response, parsed, clock, runs, today, state, review_day, allow_new,
                   profit_calls, raw, updated_state, pool_file, wrote>>

\* the master log written before the digitaltwin log
DigitalTwinDone_swapped ==
    /\ pc = "digitaltwin"
    /\ attempts < RETRY
    /\ attempts' = 0
    /\ wrote' = wrote \o <<"healing_log", "digitaltwin_log">>
    /\ pc' = "public_post"
    /\ UNCHANGED <<exit_msg, response, parsed, clock, runs, today, state, review_day, allow_new,
                   profit_calls, raw, updated_state, pool_file>>

\* lines 541-551: write the digitaltwin log and the master log, request the post
DigitalTwinDone ==
    /\ pc = "digitaltwin"
    /\ attempts < RETRY
    /\ attempts' = 0
    /\ wrote' = wrote \o <<"digitaltwin_log", "healing_log">>
    /\ pc' = "public_post"
    /\ UNCHANGED <<exit_msg, response, parsed, clock, runs, today, state, review_day, allow_new,
                   profit_calls, raw, updated_state, pool_file>>

\* lines 457-466 and 552-557: the post parses to a dict, or the fallback is used
PublicPostDone ==
    /\ pc = "public_post"
    /\ attempts < RETRY
    /\ attempts' = 0
    /\ pc' = "publish"
    /\ UNCHANGED <<exit_msg, response, parsed, clock, runs, today, state, review_day, allow_new,
                   profit_calls, raw, updated_state, pool_file, wrote>>

\* line 460 returns a JSON value that is no dict: post.get raises at line 552
PublicPostCrash ==
    /\ pc = "public_post"
    /\ attempts < RETRY
    /\ attempts' = attempts + 1
    /\ pc' = "crashed"
    /\ exit_msg' = "traceback"
    /\ UNCHANGED <<response, parsed, clock, runs, today, state, review_day, allow_new,
                   profit_calls, raw, updated_state, pool_file, wrote>>

\* moltbook_post whose last failure undoes the writes of the run
PublishFailure_rollback ==
    /\ pc = "publish"
    /\ attempts < RETRY
    /\ attempts' = attempts + 1
    /\ pc' = IF attempts + 1 = RETRY THEN "fatal" ELSE pc
    /\ exit_msg' = IF attempts + 1 = RETRY THEN "moltbook" ELSE exit_msg
    /\ pool_file' = IF attempts + 1 = RETRY THEN init_profit_state ELSE pool_file
    /\ wrote' = IF attempts + 1 = RETRY THEN <<>> ELSE wrote
    /\ UNCHANGED <<response, parsed, clock, runs, today, state, review_day, allow_new,
                   profit_calls, raw, updated_state>>

\* moltbook_post, lines 164-181: an attempt fails; the third failure is die()
PublishFailure ==
    /\ pc = "publish"
    /\ attempts < RETRY
    /\ attempts' = attempts + 1
    /\ pc' = IF attempts + 1 = RETRY THEN "fatal" ELSE pc
    /\ exit_msg' = IF attempts + 1 = RETRY THEN "moltbook" ELSE exit_msg
    /\ UNCHANGED <<response, parsed, clock, runs, today, state, review_day, allow_new,
                   profit_calls, raw, updated_state, pool_file, wrote>>

\* line 176 returns; main lines 563-566
PublishDone ==
    /\ pc = "publish"
    /\ attempts < RETRY
    /\ attempts' = attempts + 1
    /\ pc' = "done"
    /\ UNCHANGED <<exit_msg, response, parsed, clock, runs, today, state, review_day, allow_new,
                   profit_calls, raw, updated_state, pool_file, wrote>>

\* the process exits (SystemExit, an uncaught exception, or the return of
\* main): its locals are gone, the files stay
Exit ==
    /\ pc \in Ended
    /\ pc' = "idle"
    /\ today' = 0
    /\ state' = init_profit_state
    /\ review_day' = TRUE
    /\ allow_new' = TRUE
    /\ attempts' = 0
    /\ profit_calls' = 0
    /\ raw' = "none"
    /\ updated_state' = NoProposal
    /\ wrote' = <<>>
    /\ exit_msg' = "none"
    /\ UNCHANGED <<response, parsed, clock, runs, pool_file>>

Next ==
    \/ Tick
    \/ MainMissingKey
    \/ MainStart
    \/ HttpFailure
    \/ ProfitInvalid
    \/ ProfitCrash
    \/ ProfitMerge
    \/ HealingDone
    \/ DigitalTwinDone
    \/ PublicPostDone
    \/ PublicPostCrash
    \/ PublishFailure
    \/ PublishDone
    \/ Exit

Spec == Init /\ [][Next]_vars

----------------------------------------------------------------------------
\* Lines 316-327 on the text of the response: a run that has received the
\* response to its profit request, for every text of Responses.

InitParse ==
    /\ clock = 0
    /\ runs = 1
    /\ pc = "profit"
    /\ today = 0
    /\ state = init_profit_state
    /\ review_day = TRUE
    /\ allow_new = TRUE
    /\ attempts = 0
    /\ profit_calls = 1
    /\ raw = "none"
    /\ updated_state = NoProposal
    /\ pool_file = init_profit_state
    /\ wrote = <<>>
    /\ exit_msg = "none"
    /\ response \in Responses
    /\ parsed = <<>>

\* line 318 or line 324 returns a dict with the key updated_state: line 329 is reached
ParseAccepts ==
    /\ pc = "profit"
    /\ profit_parse(text_of(response)).kind = "ok"
    /\ raw' = "ok"
    /\ parsed' = profit_parse(text_of(response)).parsed
    /\ attempts' = attempts + 1
    /\ pc' = "merging"
    /\ UNCHANGED <<clock, runs, today, state, review_day, allow_new, profit_calls,
                   updated_state, pool_file, wrote, exit_msg, response>>

\* parsed is None, no dict, or a dict without updated_state: die(), line 327
ParseDies ==
    /\ pc = "profit"
    /\ profit_parse(text_of(response)).kind \in {"no_object", "no_key"}
    /\ raw' = profit_parse(text_of(response)).kind
    /\ parsed' = profit_parse(text_of(response)).parsed
    /\ attempts' = attempts + 1
    /\ pc' = "fatal"
    /\ exit_msg' = "profit_json"
    /\ UNCHANGED <<clock, runs, today, state, review_day, allow_new, profit_calls,
                   updated_state, pool_file, wrote, response>>

\* json.loads of line 324 raises inside the except block
ParseRaises ==
    /\ pc = "profit"
    /\ profit_parse(text_of(response)).kind = "bad_span"
    /\ raw' = "bad_span"
    /\ parsed' = <<>>
    /\ attempts' = attempts + 1
    /\ pc' = "crashed"
    /\ exit_msg' = "traceback"
    /\ UNCHANGED <<clock, runs, today, state, review_day, allow_new, profit_calls,
                   updated_state, pool_file, wrote, response>>

NextParse ==
    \/ ParseAccepts
    \/ ParseDies
    \/ ParseRaises

SpecParse == InitParse /\ [][NextParse]_vars

----------------------------------------------------------------------------
\* clamp_active_to_two on any pool, called twice in a row as lines 259 and 342
\* call it when the proposal carries no list.

\* the records a pool may hold at position i: active or backlog, with or
\* without a history, or without a status
ClampRecords(i) ==
    {[id |-> i, status |-> st] : st \in {"active", "backlog"}}
    \cup {[id |-> i, status |-> st, history |-> <<generated_entry(0)>>] :
             st \in {"active", "backlog"}}
    \cup {[id |-> i]}

RECURSIVE ClampPoolsOfLen(_)
ClampPoolsOfLen(n) ==
    IF n = 0 THEN {<<>>}
    ELSE {Append(p, r) : p \in ClampPoolsOfLen(n - 1), r \in ClampRecords(n)}

ClampPools == UNION {ClampPoolsOfLen(n) : n \in 0..MaxOpps}

InitClamp ==
    /\ clock = 0
    /\ runs = 1
    /\ pc = "clamp_0"
    /\ today = 0
    /\ \E opps \in ClampPools :
          /\ pool_file = [init_profit_state EXCEPT !.opportunities = opps]
          /\ state = [init_profit_state EXCEPT !.opportunities = opps]
    /\ review_day = TRUE
    /\ allow_new = TRUE
    /\ attempts = 0
    /\ profit_calls = 0
    /\ raw = "none"
    /\ updated_state = NoProposal
    /\ wrote = <<>>
    /\ exit_msg = "none"
    /\ response = NoResponse
    /\ parsed = <<>>

\* line 259: the first call
ClampFirst ==
    /\ pc = "clamp_0"
    /\ state' = [state EXCEPT !.opportunities = clamp_active_to_two(@, clock)]
    /\ pc' = "clamp_1"
    /\ UNCHANGED <<clock, runs, today, review_day, allow_new, attempts, profit_calls,
                   raw, updated_state, pool_file, wrote, exit_msg, response, parsed>>

\* midnight UTC passes between the two calls
ClampMidnight ==
    /\ pc = "clamp_1"
    /\ clock = today
    /\ clock < MaxDay
    /\ clock' = clock + 1
    /\ UNCHANGED <<runs, pc, today, state, review_day, allow_new, attempts, profit_calls,
                   raw, updated_state, pool_file, wrote, exit_msg, response, parsed>>

\* line 342: the second call
ClampSecond ==
    /\ pc = "clamp_1"
    /\ state' = [state EXCEPT !.opportunities = clamp_active_to_two(@, clock)]
    /\ pc' = "clamp_2"
    /\ UNCHANGED <<clock, runs, today, review_day, allow_new, attempts, profit_calls,
                   raw, updated_state, pool_file, wrote, exit_msg, response, parsed>>

NextClamp ==
    \/ ClampFirst
    \/ ClampMidnight
    \/ ClampSecond

SpecClamp == InitClamp /\ [][NextClamp]_vars

----------------------------------------------------------------------------
\* Vocabulary of the properties.

IsActive(o) == "status" \in DOMAIN o /\ o.status = "active"

ActiveIndices(opps) == {i \in 1..Len(opps) : IsActive(opps[i])}

ActiveCount(opps) == Cardinality(ActiveIndices(opps))

\* the first two active positions of a list
FirstTwoActive(opps) ==
    {i \in ActiveIndices(opps) : Cardinality({j \in ActiveIndices(opps) : j < i}) < 2}

IdsOf(opps) == {opps[i].id : i \in 1..Len(opps)}

HistoryOf(o) == IF "history" \in DOMAIN o THEN o.history ELSE <<>>

IsPrefix(a, b) == Len(a) <= Len(b) /\ SubSeq(b, 1, Len(a)) = a

\* the step of a run that merges the proposal and persists the pool
MergeStep == pc = "profit" /\ pc' = "healing"

\* a merge has been performed in the current run
Merged == raw = "ok"

ProposesList == "opportunities" \in DOMAIN updated_state

----------------------------------------------------------------------------
\* C1: after every merge the pool returned by generate_profit_module, and the
\* pool that is persisted, hold at most 2 opportunities with status "active".
C1_AtMostTwoActive ==
    /\ ActiveCount(pool_file.opportunities) <= 2
    /\ Merged => /\ ActiveCount(state.opportunities) <= 2
                 /\ pool_file = state

\* a merge of a proposal with more than 2 active records has been persisted
C1_Witness ==
    /\ Merged
    /\ ProposesList
    /\ ActiveCount(updated_state.opportunities) > 2
    /\ ActiveCount(pool_file.opportunities) = 2

\* C2: no opportunity is ever deleted: the ids of the persisted pool never
\* shrink, whatever the proposal.
C2_NoDeletion ==
    [][IdsOf(pool_file.opportunities) \subseteq IdsOf(pool_file'.opportunities)]_vars

\* C3: when review is not allowed, the merged pool holds no id that was absent
\* from the previous pool.
C3_NoNewIdWhenGated ==
    [][(MergeStep /\ ~allow_new) =>
          IdsOf(pool_file'.opportunities) \subseteq IdsOf(pool_file.opportunities)]_vars

\* C4: a run that fails in a generation stage (profit, healing, digitaltwin,
\* public post) has written none of its files.
C4_AllOrNothing ==
    [][(pc \in GenStages /\ pc' \in {"fatal", "crashed"}) => wrote' = <<>>]_vars

\* C5: history is append-only: for every id present before and after a step,
\* the history before is a prefix of the history after.
C5_HistoryAppendOnly ==
    [][\A i \in 1..Len(pool_file.opportunities) :
         \A j \in 1..Len(pool_file'.opportunities) :
            pool_file.opportunities[i].id = pool_file'.opportunities[j].id =>
               IsPrefix(HistoryOf(pool_file.opportunities[i]),
                        HistoryOf(pool_file'.opportunities[j]))]_vars

\* C6: a run whose first profit response fails extraction, parsing or
\* validation has made exactly 2 generation requests for it when it ends.
C6_ExactlyOneRepair ==
    (pc \in Ended /\ raw \in {"no_object", "bad_span", "no_key"}) => profit_calls = 2

\* C7: a merge of a proposal with more than 2 active records leaves exactly the
\* first two of them active; every other one is backlog and its history is the
\* proposed history plus one last entry, auto-downgrade-to-backlog, dated
\* today_str().
C7_ClampAfterMerge ==
    [][(MergeStep /\ "opportunities" \in DOMAIN updated_state'
          /\ ActiveCount(updated_state'.opportunities) > 2) =>
          LET prop == updated_state'.opportunities
              out == state'.opportunities
          IN  /\ Len(out) = Len(prop)
              /\ ActiveCount(out) = 2
              /\ ActiveIndices(out) = FirstTwoActive(prop)
              /\ \A i \in ActiveIndices(prop) \ FirstTwoActive(prop) :
                    /\ "status" \in DOMAIN out[i] /\ out[i].status = "backlog"
                    /\ "history" \in DOMAIN out[i]
                    /\ Len(out[i].history) = Len(HistoryOf(prop[i])) + 1
                    /\ IsPrefix(HistoryOf(prop[i]), out[i].history)
                    /\ out[i].history[Len(out[i].history)].event = "auto-downgrade-to-backlog"
                    /\ out[i].history[Len(out[i].history)].date = clock]_vars

\* a proposal with more than 2 active records was merged, and one of the
\* downgraded records was proposed with a history of its own
C7_Witness ==
    /\ Merged
    /\ ProposesList
    /\ ActiveCount(updated_state.opportunities) > 2
    /\ ActiveCount(state.opportunities) = 2
    /\ \E i \in ActiveIndices(updated_state.opportunities)
                  \ FirstTwoActive(updated_state.opportunities) :
          /\ HistoryOf(updated_state.opportunities[i]) # <<>>
          /\ state.opportunities[i].status = "backlog"
          /\ Len(state.opportunities[i].history)
                = Len(HistoryOf(updated_state.opportunities[i])) + 1

\* C8, as stated: allow_new is true exactly when last_review_date is unset, or
\* at least review_interval_days days lie between it and today, or no
\* opportunity is active.
C8_GateAsStated ==
    pc = "profit" =>
       (allow_new <=>
          \/ state.last_review_date = NoDate
          \/ /\ state.last_review_date >= 0
             /\ today - state.last_review_date >= state.review_interval_days
          \/ ActiveCount(state.opportunities) = 0)

\* C8, amended: allow_new is true exactly when last_review_date is unset, or is
\* no parseable date, or at least review_interval_days days lie between it and
\* today, or no opportunity is active.
C8_Gate ==
    pc = "profit" =>
       (allow_new <=>
          \/ state.last_review_date = NoDate
          \/ state.last_review_date = BadDate
          \/ /\ state.last_review_date >= 0
             /\ today - state.last_review_date >= state.review_interval_days
          \/ ActiveCount(state.opportunities) = 0)

\* the gate is closed: a date is set, fewer than the interval's days have
\* passed and an opportunity is active
C8_Witness ==
    /\ pc = "profit"
    /\ ~allow_new
    /\ state.last_review_date >= 0
    /\ ActiveCount(state.opportunities) > 0

\* C9: after a merge in a cycle where review was allowed, the pool's
\* last_review_date is the date of the cycle.
C9_ReviewDateAdvances ==
    [][(MergeStep /\ allow_new) => pool_file'.last_review_date = today]_vars

\* C10: every opportunity of the persisted pool has a status in the closed
\* enumeration.
C10_StatusInEnumeration ==
    \A i \in 1..Len(pool_file.opportunities) :
       /\ "status" \in DOMAIN pool_file.opportunities[i]
       /\ pool_file.opportunities[i].status \in Statuses

----------------------------------------------------------------------------
\* Vocabulary of the properties about the text of a response.

\* every } closes an earlier {, and every { is closed
RECURSIVE BracesMatchedFrom(_, _, _)
BracesMatchedFrom(s, i, depth) ==
    IF i > Len(s) THEN depth = 0
    ELSE IF s[i] = "{" THEN BracesMatchedFrom(s, i + 1, depth + 1)
    ELSE IF s[i] = "}" THEN depth > 0 /\ BracesMatchedFrom(s, i + 1, depth - 1)
    ELSE BracesMatchedFrom(s, i + 1, depth)

BracesMatched(s) == BracesMatchedFrom(s, 1, 0)

IsObjectLiteral(s) == Len(s) > 0 /\ s[1] = "{" /\ json_loads_ok(s)

\* s without the commas that stand, outside quoted strings, right before a
\* closing } or ] (white space between them allowed)
RECURSIVE WithoutTrailingCommas(_, _, _)
WithoutTrailingCommas(s, i, quoted) ==
    IF i > Len(s) THEN <<>>
    ELSE IF s[i] = "\"" THEN <<s[i]>> \o WithoutTrailingCommas(s, i + 1, ~quoted)
    ELSE IF /\ ~quoted
            /\ s[i] = ","
            /\ skip_ws(s, i + 1) <= Len(s)
            /\ s[skip_ws(s, i + 1)] \in {"}", "]"}
         THEN WithoutTrailingCommas(s, i + 1, quoted)
    ELSE <<s[i]>> \o WithoutTrailingCommas(s, i + 1, quoted)

\* an object literal that is well-formed but for its trailing commas
HasOnlyTrailingCommas(s) ==
    /\ Len(s) > 0 /\ s[1] = "{"
    /\ ~json_loads_ok(s)
    /\ json_loads_ok(WithoutTrailingCommas(s, 1, FALSE))

\* the text has been through lines 316-327
ParseDone == pc # "profit"

\* C11: of a response prefix + balancedObject + suffix whose prefix and suffix
\* hold no unmatched brace, the text that is extracted and parsed is exactly
\* balancedObject.
C11_ExtractsBalancedObject ==
    (/\ ParseDone
     /\ IsObjectLiteral(response.object)
     /\ BracesMatched(response.prefix)
     /\ BracesMatched(response.suffix))
       => parsed = response.object

\* C12: a response whose object literal is well-formed but for trailing commas,
\* in prose and a json fence, is accepted, and what is parsed is the literal
\* without those commas.
C12_TrailingCommaRecovered ==
    (/\ ParseDone
     /\ HasOnlyTrailingCommas(response.object)
     /\ <<"updated_state">> \in keys_from(WithoutTrailingCommas(response.object, 1, FALSE), 2)
     /\ response.prefix \in {<<>>, <<"Sure", " ", "fence_json", " ">>}
     /\ response.suffix \in {<<>>, <<" ", "fence">>})
       => /\ raw = "ok"
          /\ parsed = WithoutTrailingCommas(response.object, 1, FALSE)

----------------------------------------------------------------------------
\* Vocabulary of the properties about failures and writes.

\* the values of raw of a response that gives no object with the key updated_state
InvalidKinds == {"no_object", "no_key", "bad_span"}

\* the four files of a run, in the order of the writes
AllWrites == <<"pool", "profit_log", "digitaltwin_log", "healing_log">>

\* the run has ended in a failure of the parse of the profit response
ProfitParseFailed == pc \in {"fatal", "crashed"} /\ raw \in InvalidKinds

\* C13: when the run has ended in a failure of the structured-output stage, the
\* raw text of the response has been written to a diagnostic file.
C13_RawTextPersisted ==
    ProfitParseFailed => \E i \in 1..Len(wrote) : wrote[i] = "diagnostic"

\* C14: the step in which moltbook_post gives up and ends the run leaves the
\* pool file and the four files written by the run as they were.
C14_PublishFailureKeepsFiles ==
    [][(pc = "publish" /\ pc' = "fatal")
         => /\ pool_file' = pool_file
            /\ wrote' = wrote
            /\ wrote = AllWrites]_vars

C14_Witness ==
    /\ pc = "fatal"
    /\ exit_msg = "moltbook"
    /\ wrote = AllWrites
    /\ pool_file = state
    /\ Len(pool_file.opportunities) > 0

\* C15: a request is never attempted more than RETRY times; while the run is in
\* a generation stage fewer than RETRY attempts have failed, and the run has
\* ended with die() of deepseek_chat exactly when RETRY attempts have failed.
C15_BoundedAttempts ==
    /\ attempts <= RETRY
    /\ pc \in GenStages => attempts < RETRY
    /\ exit_msg = "deepseek" => (pc = "fatal" /\ attempts = RETRY)

\* the third attempt of the request of generate_public_post has failed
C15_Witness ==
    /\ exit_msg = "deepseek"
    /\ pc = "fatal"
    /\ attempts = RETRY
    /\ wrote = AllWrites

\* C18: the step in which the profit response turns out to give no object with
\* the key updated_state ends the run with nothing written: the pool file is
\* as it was before the run and no log has been written.
C18_InvalidResponseWritesNothing ==
    [][(pc = "profit" /\ raw' \in InvalidKinds)
         => /\ pc' \in {"fatal", "crashed"}
            /\ pool_file' = pool_file
            /\ wrote = <<>>
            /\ wrote' = <<>>]_vars

\* a second run fails on its response and the pool of the first run is in the file
C18_Witness ==
    /\ ProfitParseFailed
    /\ runs = MaxRuns
    /\ wrote = <<>>
    /\ Len(pool_file.opportunities) > 0

\* C19: a merge of a proposal without the key "opportunities" keeps the
\* (clamped) list of the pool; a merge of a proposal whose last_review_date is
\* absent or null keeps the pool's last_review_date; no merge changes version
\* or review_interval_days.
C19_OmittedFieldsUntouched ==
    [][MergeStep
         => /\ "opportunities" \notin DOMAIN updated_state'
                 => /\ state'.opportunities = state.opportunities
                    /\ pool_file'.opportunities = state.opportunities
            /\ updated_state'.last_review_date = NoDate
                 => /\ state'.last_review_date = state.last_review_date
                    /\ pool_file'.last_review_date = state.last_review_date
            /\ state'.version = state.version
            /\ pool_file'.version = state.version
            /\ state'.review_interval_days = state.review_interval_days
            /\ pool_file'.review_interval_days = state.review_interval_days]_vars

\* a proposal without a list has been merged into a pool with active records
\* and a record with a history
C19_Witness ==
    /\ Merged
    /\ ~ProposesList
    /\ pool_file = state
    /\ \E i \in 1..Len(state.opportunities) : IsActive(state.opportunities[i])
    /\ \E i \in 1..Len(state.opportunities) : HistoryOf(state.opportunities[i]) # <<>>

\* C20: the files of a run are written in the order pool, profit log,
\* digitaltwin log, master log, and whenever moltbook_post is about to be
\* invoked, has been attempted, or has returned, all four have been written.
C20_WritesBeforePublish ==
    /\ IsPrefix(wrote, AllWrites)
    /\ (pc \in {"publish", "done"} \/ exit_msg = "moltbook") => wrote = AllWrites

\* one attempt to publish has failed, the next one is about to be made
C20_Witness ==
    /\ pc = "publish"
    /\ attempts > 0
    /\ wrote = AllWrites

----------------------------------------------------------------------------
\* Vocabulary of the properties about the clamp alone.

\* a step that is a call of clamp_active_to_two
ClampStep == pc \in {"clamp_0", "clamp_1"} /\ pc' # pc

\* C16: a call of clamp_active_to_two on a pool with at most 2 active records
\* changes nothing, and the second of two calls in a row changes nothing (so no
\* record gets a second auto-downgrade entry).
C16_ClampIdempotent ==
    [][ClampStep
         => /\ ActiveCount(state.opportunities) <= 2
                 => state'.opportunities = state.opportunities
            /\ pc = "clamp_1" => state'.opportunities = state.opportunities]_vars

\* both calls have been made, a midnight apart, on a pool the first one changed
C16_Witness ==
    /\ pc = "clamp_2"
    /\ clock > today
    /\ ActiveCount(pool_file.opportunities) > 2
    /\ state # pool_file
    /\ ActiveCount(state.opportunities) = 2

\* C17: a call of clamp_active_to_two keeps the number, the order and the ids
\* of the records, leaves every record that was not active and the first two
\* active ones as they were, and keeps the old history of every record as a
\* prefix of its new history.
C17_ClampFrame ==
    [][ClampStep
         => /\ Len(state'.opportunities) = Len(state.opportunities)
            /\ \A i \in 1..Len(state.opportunities) :
                  /\ state'.opportunities[i].id = state.opportunities[i].id
                  /\ (i \notin ActiveIndices(state.opportunities)
                        \/ i \in FirstTwoActive(state.opportunities))
                       => state'.opportunities[i] = state.opportunities[i]
                  /\ IsPrefix(HistoryOf(state.opportunities[i]),
                              HistoryOf(state'.opportunities[i]))
                  /\ DOMAIN state'.opportunities[i]
                        \subseteq DOMAIN state.opportunities[i] \cup {"status", "history"}
            /\ state'.version = state.version
            /\ state'.review_interval_days = state.review_interval_days
            /\ state'.last_review_date = state.last_review_date]_vars

\* the first call has downgraded a record that had a history, in a pool that
\* also holds a record that is not active
C17_Witness ==
    /\ pc = "clamp_1"
    /\ \E i \in 1..Len(state.opportunities) :
          /\ IsActive(pool_file.opportunities[i])
          /\ ~IsActive(state.opportunities[i])
          /\ HistoryOf(pool_file.opportunities[i]) # <<>>
          /\ Len(HistoryOf(state.opportunities[i])) = 2
    /\ \E i \in 1..Len(state.opportunities) : ~IsActive(pool_file.opportunities[i])

====
